---- MODULE Spec2Model ----
(***************************************************************************)
(* Model of function_app.py: the timer-triggered WeatherAlert run          *)
(* (location lookup, forecast fetch and normalisation, icon cache,         *)
(* HTML rendering, hand-off to the mail transport) and its pure helpers.   *)
(*                                                                         *)
(* Python values are represented as follows.                               *)
(*   None                      the string NoneV                            *)
(*   bytes                     a string ("" is the empty body)             *)
(*   EpochDate                 a natural number of ticks, TicksPerDay      *)
(*                             ticks to a calendar day; 0 stands for every *)
(*                             falsy value (absent, null, 0)               *)
(*   Icon                      a natural number; 0 stands for every falsy  *)
(*                             value (absent, null, 0)                     *)
(***************************************************************************)
EXTENDS Integers, Sequences, FiniteSets, TLC

VARIABLES pc, env_ok, forecast_days, location_key, forecast_data, idx,
          fetched_icons, email_images, html_content, calls, logs, sent,
          geo, forecast_kind, probe

vars == <<pc, env_ok, forecast_days, location_key, forecast_data, idx,
          fetched_icons, email_images, html_content, calls, logs, sent,
          geo, forecast_kind, probe>>

runvars == <<pc, env_ok, forecast_days, location_key, forecast_data, idx,
             fetched_icons, email_images, html_content, calls, logs, sent,
             geo, forecast_kind>>

NoneV == "None"

----------------------------------------------------------------------------
(* Bounds of the model.                                                    *)

MaxEntries == 6      \* longest provider payload given to the normaliser
MaxLongEpoch == 2    \* largest EpochDate (ticks) in the long payloads
MaxShort == 3        \* length of the payloads with widely varying dates
MaxEpoch == 5        \* largest EpochDate (ticks) in those payloads
MaxFlawEntries == 2  \* length of the payloads with deviating fields
MaxRunEntries == 2   \* longest provider payload inside a whole run
MaxRunEpoch == 3     \* largest EpochDate (ticks) inside a whole run
MaxIcon == 2         \* largest icon number inside a whole run
MaxWindDeg == 400    \* wind bearings range over -MaxWindDeg..MaxWindDeg

TicksPerDay == 2     \* stands for the 86400 seconds of a UTC calendar day

----------------------------------------------------------------------------
(* get_wind_direction                                                      *)

directions ==
  << "N", "NNE", "NE", "ENE", "E", "ESE", "SE", "SSE",
     "S", "SSW", "SW", "WSW", "W", "WNW", "NW", "NNW" >>

\* Python's int(x) on the quotient n/m (m > 0): truncation toward zero.
PyIntQuot(n, m) == IF n >= 0 THEN n \div m ELSE -((-n) \div m)

\* A wind input is None, an integer, or a value int() rejects
\* (ValueError / TypeError), e.g. the string "abc".
WindNone == [tag |-> "none", val |-> 0]
WindText == [tag |-> "text", val |-> 0]
WindInt(d) == [tag |-> "int", val |-> d]

\* int((degrees + 11.25) / 22.5) % 16, in exact arithmetic:
\* (d + 11.25) / 22.5 = (4d + 45) / 90; Python's % 16 is non-negative.
WindIndex(d) == PyIntQuot(4 * d + 45, 90) % 16

get_wind_direction(degrees) ==
  IF degrees.tag = "none" THEN "N/A"
  ELSE IF degrees.tag = "text" THEN "N/A"
  ELSE directions[WindIndex(degrees.val) + 1]

----------------------------------------------------------------------------
(* Small string conversions                                                *)

Digits == << "0", "1", "2", "3", "4", "5", "6", "7", "8", "9" >>

RECURSIVE ToStr(_)
\* str(n) for a natural number n
ToStr(n) == IF n < 10 THEN Digits[n + 1]
            ELSE ToStr(n \div 10) \o Digits[(n % 10) + 1]

\* str(n).zfill(2), and strftime's %d
Zfill2(n) == IF n < 10 THEN "0" \o ToStr(n) ELSE ToStr(n)

\* str.capitalize(): first character upper-cased, all the others lower-cased
Capitalize(s) ==
  CASE s = "sunny" -> "Sunny"
    [] s = "N/A" -> "N/a"
    [] OTHER -> s

\* date_obj.strftime("%Y-%m-%d") for the calendar day n days after 1970-01-01
DateStr(n) == "1970-01-" \o Zfill2(n + 1)

Weekdays == << "Monday", "Tuesday", "Wednesday", "Thursday",
               "Friday", "Saturday", "Sunday" >>

\* date_obj.strftime("%A"); 1970-01-01 was a Thursday
DayName(n) == Weekdays[((n + 3) % 7) + 1]

\* the UTC calendar day of a timestamp
DayOf(epoch) == epoch \div TicksPerDay

----------------------------------------------------------------------------
(* get_accuweather_forecast: the provider's payload and its normalisation  *)

\* One element of DailyForecasts.  Each nested field is either as the
\* provider documents it or deviates:
\*   Day           "obj" | "absent" | "null"
\*   IconPhrase    "sunny" | "absent" | "null"        (Day.IconPhrase)
\*   RainValue     "num" | "absent" | "null" | "text" (Day.Rain.Value)
\*   Degrees       a wind input                (Day.Wind.Direction.Degrees)
\*   SunRise       "iso" | "absent" | "garbage"       (Sun.Rise)
\*   AirAndPollen  "uv" | "nouv" | "absent" | "null"
\*   TempMax       "num" | "absent" | "null"   (Temperature.Maximum.Value)
Canon(e, i) ==
  [EpochDate |-> e, Icon |-> i, Day |-> "obj", IconPhrase |-> "sunny",
   RainValue |-> "num", Degrees |-> WindInt(90), SunRise |-> "iso",
   AirAndPollen |-> "uv", TempMax |-> "num"]

\* every entry that deviates from Canon(e, i) in exactly one nested field
Deviants(e, i) ==
  {[Canon(e, i) EXCEPT !.Day = v] : v \in {"absent", "null"}}
  \cup {[Canon(e, i) EXCEPT !.IconPhrase = v] : v \in {"absent", "null"}}
  \cup {[Canon(e, i) EXCEPT !.RainValue = v] : v \in {"absent", "null", "text"}}
  \cup {[Canon(e, i) EXCEPT !.Degrees = v] : v \in {WindNone, WindText}}
  \cup {[Canon(e, i) EXCEPT !.SunRise = v] : v \in {"absent", "garbage"}}
  \cup {[Canon(e, i) EXCEPT !.AirAndPollen = v] : v \in {"nouv", "absent", "null"}}
  \cup {[Canon(e, i) EXCEPT !.TempMax = v] : v \in {"absent", "null"}}

\* The first exception the loop body raises on entry d, in statement order,
\* or "none".
EntryError(d) ==
  IF d.Day = "null" THEN "AttributeError"                   \* line 107
  ELSE IF d.AirAndPollen = "null" THEN "TypeError"          \* line 114
  ELSE IF d.Day = "obj" /\ d.RainValue \in {"null", "text"}
       THEN "TypeError"                                     \* line 118
  ELSE IF d.Day = "obj" /\ d.IconPhrase = "null"
       THEN "AttributeError"                                \* line 150
  ELSE IF d.TempMax = "null" THEN "TypeError"               \* line 152
  ELSE "none"

\* The forecast dict built from entry d (lines 105-166).
Normalize(d) ==
  LET present == d.Day = "obj"
      phrase == IF present /\ d.IconPhrase = "sunny" THEN "sunny" ELSE "N/A"
  IN [weather_desc |-> Capitalize(phrase),
      icon |-> IF present THEN d.Icon ELSE 0,
      high_temp |-> IF d.TempMax = "num" THEN 20 ELSE 0,
      wind_direction |->
          get_wind_direction(IF present THEN d.Degrees ELSE WindNone),
      precipitation |-> IF present /\ d.RainValue = "num" THEN 2 ELSE 0,
      uv_index |-> IF d.AirAndPollen = "uv" THEN "5 (Moderate)" ELSE "N/A",
      sunrise |-> IF d.SunRise = "iso" THEN "06:00AM UTC+01:00" ELSE "N/A",
      date_obj |-> d.EpochDate,
      date_str |-> IF d.EpochDate = 0 THEN "N/A"
                   ELSE DateStr(DayOf(d.EpochDate)),
      day_name |-> IF d.EpochDate = 0 THEN "N/A"
                   ELSE DayName(DayOf(d.EpochDate))]

\* the sort key of line 170: date_obj or datetime.min
SortKey(r) == r.date_obj

RECURSIVE InsertSorted(_, _)
\* r placed after every element whose key is <= its own (a stable sort)
InsertSorted(r, s) ==
  IF s = << >> THEN << r >>
  ELSE IF SortKey(Head(s)) <= SortKey(r)
       THEN << Head(s) >> \o InsertSorted(r, Tail(s))
       ELSE << r >> \o s

\* the provider's order kept as it came
SortByDate_Unsorted(s) == s

RECURSIVE SortByDate(_)
\* list.sort(key=...) of line 170
SortByDate(s) ==
  IF s = << >> THEN << >>
  ELSE InsertSorted(s[Len(s)], SortByDate(SubSeq(s, 1, Len(s) - 1)))

\* s[:n]
Truncate(s, n) == SubSeq(s, 1, IF Len(s) < n THEN Len(s) ELSE n)

SupportedDays == {1, 5, 10, 15}

\* the requested count used as it is
EffectiveDays_NoCoerce(days) == days

\* lines 80-82
EffectiveDays(days) == IF days \in SupportedDays THEN days ELSE 5

\* index of the first entry whose processing raises, 0 if none
FirstError(entries) ==
  LET bad == {k \in 1..Len(entries) : EntryError(entries[k]) # "none"}
  IN IF bad = {} THEN 0 ELSE CHOOSE k \in bad : \A j \in bad : k <= j

\* A forecast response is [kind, entries]:
\*   "neterr"   the GET raised a RequestException (network, non-2xx, non-JSON)
\*   "nodaily"  a JSON body that is falsy or has no "DailyForecasts"
\*   "ok"       a JSON object whose "DailyForecasts" is entries
\* The result is [status, recs, endpoint, warned]: status "ok" and the
\* returned list, "none" for a returned None, "raised" for an exception
\* that leaves the function; endpoint is the N of the /{N}day/ URL requested
\* and warned tells whether the warning of line 81 was logged.
get_accuweather_forecast(days, resp) ==
  LET d == EffectiveDays(days)
      base == [status |-> "none", recs |-> << >>, endpoint |-> d,
               warned |-> (days \notin SupportedDays)]
      k == FirstError(resp.entries)
  IN CASE resp.kind = "neterr" -> base
       [] resp.kind = "nodaily" -> base
       [] OTHER ->
          IF k # 0
          THEN IF EntryError(resp.entries[k]) = "AttributeError"
               THEN [base EXCEPT !.status = "raised"]
               ELSE base
          ELSE [base EXCEPT
                  !.status = "ok",
                  !.recs = Truncate(
                      SortByDate([j \in 1..Len(resp.entries) |->
                                    Normalize(resp.entries[j])]), d)]

----------------------------------------------------------------------------
(* get_accuweather_location_key                                            *)

\* What the geoposition GET can produce:
\*   "neterr"        requests.get raised (network failure)
\*   "http_error"    raise_for_status raised (non-2xx)
\*   "not_json"      response.json() raised
\*   "not_object"    a JSON value that is not an object (a list, a string)
\*   "empty_object"  {}
\*   "no_key"        an object without "Key"
\*   "null_key"      {"Key": null}
\*   "empty_key"     {"Key": ""}
\*   "key"           {"Key": "K1"}
GeoOutcomes == {"neterr", "http_error", "not_json", "not_object",
                "empty_object", "no_key", "null_key", "empty_key", "key"}

get_accuweather_location_key(outcome) ==
  CASE outcome = "key" -> "K1"
    [] outcome = "empty_key" -> ""
    [] outcome = "null_key" -> NoneV
    [] OTHER -> NoneV

\* Python truthiness of a str / bytes / None value
Truthy(v) == v \notin {NoneV, ""}

\* a test against None alone, which lets an empty key through
KeyMissing_NoneOnly(key) == key = NoneV

\* line 280: if not location_key
KeyMissing(key) == ~Truthy(key)

----------------------------------------------------------------------------
(* WeatherAlert: icon cache and rendering                                  *)

IconBodies == {"", "PNGa", "PNGb"}

\* an icon GET either returns a body or raises a RequestException
IconOutcomes == [ok : {TRUE}, body : IconBodies]
                \cup {[ok |-> FALSE, body |-> ""]}

\* line 326
IconCodeStr(icon_code) == Zfill2(icon_code)

\* lines 328 and 384
ImageCid(date_str, icon_code_str) ==
  "summary_icon_" \o date_str \o "_" \o icon_code_str

\* fetched_icons.get(code), line 386
CacheGet(fetched, code) ==
  IF code \in DOMAIN fetched THEN fetched[code] ELSE NoneV

\* a cache that retries a code whose earlier attempt failed or was empty
NeedsFetch_RetryFailed(rec, fetched) ==
  rec.icon # 0 /\ ~Truthy(CacheGet(fetched, IconCodeStr(rec.icon)))

\* no cache at all: one GET per record that carries an icon code
NeedsFetch_NoCache(rec, fetched) == rec.icon # 0

\* line 330: whether the summary loop issues a GET for this record
NeedsFetch(rec, fetched) ==
  rec.icon # 0 /\ IconCodeStr(rec.icon) \notin DOMAIN fetched

\* lines 330-345: the cache after the summary loop has handled rec
CacheAfter(rec, fetched, outcome) ==
  IF NeedsFetch(rec, fetched)
  THEN fetched @@ (IconCodeStr(rec.icon) :>
                     (IF outcome.ok THEN outcome.body ELSE NoneV))
  ELSE fetched

\* lines 330-345: the attachment list after the summary loop has handled rec
ImagesAfter(rec, fetched, images, outcome) ==
  LET code == IconCodeStr(rec.icon)
      cid == ImageCid(rec.date_str, code)
  IN IF rec.icon = 0 THEN images
     ELSE IF NeedsFetch(rec, fetched)
          THEN IF outcome.ok THEN Append(images, << outcome.body, cid >>)
               ELSE images
          ELSE IF Truthy(fetched[code])
                  /\ ~ \E k \in 1..Len(images) : images[k][2] = cid
               THEN Append(images, << fetched[code], cid >>)
               ELSE images

\* lines 347-368: the summary-strip entry of rec, given the cache after the
\* record's fetch.  cid is "" when the entry holds no <img src="cid:...">;
\* text is the entry's textual content, token by token.
SummaryItem(rec, fetched) ==
  LET code == IconCodeStr(rec.icon)
  IN IF rec.icon # 0 /\ Truthy(fetched[code])
     THEN [sec |-> "summary", day_name |-> rec.day_name,
           cid |-> ImageCid(rec.date_str, code), text |-> << >>]
     ELSE [sec |-> "summary", day_name |-> rec.day_name, cid |-> "",
           text |-> << "(", rec.weather_desc, ")" >>]

\* a detail section that trusts the summary loop to have fetched the icon
DetailSection_AlwaysImg(rec, fetched) ==
  IF rec.icon = 0
  THEN [sec |-> "detail", day_name |-> rec.day_name, cid |-> "",
        text |-> << "(", "icon unavailable", ")" >>]
  ELSE [sec |-> "detail", day_name |-> rec.day_name,
        cid |-> ImageCid(rec.date_str, IconCodeStr(rec.icon)), text |-> << >>]

\* lines 375-405: the detail section of rec
DetailSection(rec, fetched) ==
  LET code == IconCodeStr(rec.icon)
  IN IF rec.icon = 0
     THEN [sec |-> "detail", day_name |-> rec.day_name, cid |-> "",
           text |-> << "(", "icon unavailable", ")" >>]
     ELSE IF Truthy(CacheGet(fetched, code))
          THEN [sec |-> "detail", day_name |-> rec.day_name,
                cid |-> ImageCid(rec.date_str, code), text |-> << >>]
          ELSE [sec |-> "detail", day_name |-> rec.day_name, cid |-> "",
                text |-> << "(", rec.weather_desc, " - icon unavailable",
                            ")" >>]

----------------------------------------------------------------------------
(* WeatherAlert: one timer-triggered run                                   *)

\* FORECAST_DAYS values of a run: below, inside and above the accepted range
RunDayChoices == {0, 1, 5, 7, 16}

\* lines 262-274
ConfigValid(ok, days) == ok /\ 1 <= days /\ days <= 15

\* a test that takes a returned None for an empty forecast
ForecastUsable_NotRaised(r) == r.status # "raised"

\* line 288: if forecast_data (neither None nor an empty list)
ForecastUsable(r) == r.status = "ok" /\ r.recs # << >>

SeqsUpTo(S, n) == UNION {[1..k -> S] : k \in 0..n}

RunEntries ==
  {Canon(e, i) : e \in 0..MaxRunEpoch, i \in 0..MaxIcon}
  \cup {[Canon(1, 1) EXCEPT !.IconPhrase = "absent"],
        [Canon(1, 1) EXCEPT !.Day = "absent"],
        [Canon(1, 1) EXCEPT !.Day = "null"],
        [Canon(1, 1) EXCEPT !.RainValue = "null"]}

RunResponses ==
  {[kind |-> k, entries |-> << >>] : k \in {"neterr", "nodaily"}}
  \cup {[kind |-> "ok", entries |-> p] : p \in SeqsUpTo(RunEntries, MaxRunEntries)}

Call(op, arg) == [op |-> op, arg |-> arg]

NoMessage == [handed |-> FALSE, html |-> << >>, images |-> << >>,
              smtp |-> "none"]

NoProbe == [fn |-> "none"]

Init ==
  /\ pc = "start"
  /\ env_ok \in BOOLEAN
  /\ forecast_days \in RunDayChoices
  /\ location_key = NoneV
  /\ geo = "pending"
  /\ forecast_kind = "pending"
  /\ forecast_data = << >>
  /\ idx = 0
  /\ fetched_icons = [c \in {} |-> ""]
  /\ email_images = << >>
  /\ html_content = << >>
  /\ calls = << >>
  /\ logs = {}
  /\ sent = NoMessage
  /\ probe = NoProbe

\* lines 243-274: configuration is read and validated
Validate ==
  /\ pc = "start"
  /\ IF ConfigValid(env_ok, forecast_days)
     THEN pc' = "lookup" /\ logs' = logs
     ELSE pc' = "done" /\ logs' = logs \cup {"config_error"}
  /\ UNCHANGED <<env_ok, forecast_days, location_key, geo, forecast_data, idx,
                 fetched_icons, email_images, html_content, calls, sent,
                 forecast_kind, probe>>

\* lines 276-282
LookupLocation ==
  /\ pc = "lookup"
  /\ \E outcome \in GeoOutcomes :
       LET key == get_accuweather_location_key(outcome)
       IN /\ geo' = outcome
          /\ location_key' = key
          /\ calls' = Append(calls, Call("lookup", ""))
          /\ IF KeyMissing(key)
             THEN pc' = "done" /\ logs' = logs \cup {"no_location_key"}
             ELSE pc' = "forecast" /\ logs' = logs
  /\ UNCHANGED <<env_ok, forecast_days, forecast_data, idx, fetched_icons,
                 email_images, html_content, sent, forecast_kind, probe>>

\* lines 284-314 and 422-423
FetchForecast ==
  /\ pc = "forecast"
  /\ \E resp \in RunResponses :
       LET r == get_accuweather_forecast(forecast_days, resp)
           warn == IF r.warned THEN {"unsupported_days"} ELSE {}
       IN /\ calls' = Append(calls, Call("forecast", ToStr(r.endpoint)))
          /\ forecast_kind' = resp.kind
          /\ CASE r.status = "raised" ->
                    /\ pc' = "crashed"
                    /\ logs' = logs \cup warn
                    /\ UNCHANGED <<forecast_data, idx>>
               [] r.status # "raised" /\ ForecastUsable(r) ->
                    /\ pc' = "summary"
                    /\ logs' = logs \cup warn
                    /\ forecast_data' = r.recs
                    /\ idx' = 1
               [] OTHER ->
                    /\ pc' = "done"
                    /\ logs' = logs \cup warn \cup {"no_forecast"}
                    /\ UNCHANGED <<forecast_data, idx>>
  /\ UNCHANGED <<env_ok, forecast_days, location_key, geo, fetched_icons,
                 email_images, html_content, sent, probe>>

\* lines 318-368: one iteration of the summary loop
SummaryStep ==
  /\ pc = "summary"
  /\ idx <= Len(forecast_data)
  /\ LET rec == forecast_data[idx]
         outcomes == IF NeedsFetch(rec, fetched_icons) THEN IconOutcomes
                     ELSE {[ok |-> FALSE, body |-> ""]}
     IN \E outcome \in outcomes :
          /\ fetched_icons' = CacheAfter(rec, fetched_icons, outcome)
          /\ email_images' = ImagesAfter(rec, fetched_icons, email_images, outcome)
          /\ html_content' = Append(html_content, SummaryItem(rec, fetched_icons'))
          /\ calls' = IF NeedsFetch(rec, fetched_icons)
                      THEN Append(calls, Call("icon", IconCodeStr(rec.icon)))
                      ELSE calls
          /\ logs' = IF NeedsFetch(rec, fetched_icons) /\ ~outcome.ok
                     THEN logs \cup {"icon_failed"} ELSE logs
  /\ idx' = idx + 1
  /\ UNCHANGED <<pc, env_ok, forecast_days, location_key, geo, forecast_data,
                 sent, forecast_kind, probe>>

\* lines 370-410: the summary loop is exhausted; the detail sections are
\* rendered, one per record
DetailLoop ==
  /\ pc = "summary"
  /\ idx > Len(forecast_data)
  /\ html_content' = html_content \o
        [k \in 1..Len(forecast_data) |->
           DetailSection(forecast_data[k], fetched_icons)]
  /\ pc' = "send"
  /\ UNCHANGED <<env_ok, forecast_days, location_key, geo, forecast_data, idx,
                 fetched_icons, email_images, calls, logs, sent,
                 forecast_kind, probe>>

\* lines 412-421 and send_email_with_images (186-222): the message is handed
\* over; the transport delivers it or fails, and a failure is only logged
SendEmail ==
  /\ pc = "send"
  /\ \E smtp \in {"ok", "error"} :
       /\ sent' = [handed |-> TRUE, html |-> html_content,
                   images |-> email_images, smtp |-> smtp]
       /\ logs' = IF smtp = "error" THEN logs \cup {"send_error"} ELSE logs
  /\ calls' = Append(calls, Call("send", ""))
  /\ pc' = "done"
  /\ UNCHANGED <<env_ok, forecast_days, location_key, geo, forecast_data, idx,
                 fetched_icons, email_images, html_content, forecast_kind,
                 probe>>

Next ==
  \/ Validate
  \/ LookupLocation
  \/ FetchForecast
  \/ SummaryStep
  \/ DetailLoop
  \/ SendEmail

Spec == Init /\ [][Next]_vars

----------------------------------------------------------------------------
(* The pure functions on their own: an input is drawn, the function is     *)
(* applied once, and the result is kept next to the input.                 *)

\* the run's variables while no run is in progress
NoRun ==
  /\ pc = "off"
  /\ env_ok = TRUE
  /\ forecast_days = 5
  /\ location_key = NoneV
  /\ geo = "pending"
  /\ forecast_kind = "pending"
  /\ forecast_data = << >>
  /\ idx = 0
  /\ fetched_icons = [c \in {} |-> ""]
  /\ email_images = << >>
  /\ html_content = << >>
  /\ calls = << >>
  /\ logs = {}
  /\ sent = NoMessage

ForecastDayChoices == {1, 2, 5, 7, 10}

DatedEntries(maxEpoch) == {Canon(e, 1) : e \in 0..maxEpoch}

ShortPayloads == SeqsUpTo(DatedEntries(MaxEpoch), MaxShort)

LongPayloads == SeqsUpTo(DatedEntries(MaxLongEpoch), MaxEntries)

FlawPayloads == SeqsUpTo(Deviants(1, 1) \cup {Canon(2, 1)}, MaxFlawEntries)

ForecastResponses ==
  {[kind |-> k, entries |-> << >>] : k \in {"neterr", "nodaily"}}
  \cup {[kind |-> "ok", entries |-> p] :
          p \in ShortPayloads \cup LongPayloads \cup FlawPayloads}

PendingResult == [status |-> "pending", recs |-> << >>, endpoint |-> 0,
                  warned |-> FALSE]

InitForecast ==
  /\ NoRun
  /\ \E d \in ForecastDayChoices, r \in ForecastResponses :
       probe = [fn |-> "forecast", days |-> d, resp |-> r, done |-> FALSE,
                out |-> PendingResult]

\* get_accuweather_forecast(location_key, api_key, days), lines 74-183
CallForecast ==
  /\ probe.fn = "forecast"
  /\ ~probe.done
  /\ probe' = [probe EXCEPT
                 !.done = TRUE,
                 !.out = get_accuweather_forecast(probe.days, probe.resp)]
  /\ UNCHANGED runvars

NextForecast == CallForecast

SpecForecast == InitForecast /\ [][NextForecast]_vars

WindInputs ==
  {WindNone, WindText} \cup {WindInt(d) : d \in (0 - MaxWindDeg)..MaxWindDeg}

InitWind ==
  /\ NoRun
  /\ \E w \in WindInputs :
       probe = [fn |-> "wind", arg |-> w, done |-> FALSE, out |-> ""]

\* get_wind_direction(degrees), lines 26-40
CallWind ==
  /\ probe.fn = "wind"
  /\ ~probe.done
  /\ probe' = [probe EXCEPT !.done = TRUE,
                            !.out = get_wind_direction(probe.arg)]
  /\ UNCHANGED runvars

NextWind == CallWind

SpecWind == InitWind /\ [][NextWind]_vars

----------------------------------------------------------------------------
(* Properties of a run (specification Spec)                                *)

Min(a, b) == IF a < b THEN a ELSE b

\* the content-identifiers of an attachment list
AttachedCids(images) == {images[k][2] : k \in 1..Len(images)}

\* the content-identifiers an HTML body references through cid: links
ReferencedCids(html) ==
  {html[k].cid : k \in {j \in 1..Len(html) : html[j].cid # ""}}

\* the records the summary loop has handled so far
Processed == 1..Min(idx - 1, Len(forecast_data))

\* record k carries an icon code whose GET raised
FetchFailed(k) ==
  /\ forecast_data[k].icon # 0
  /\ IconCodeStr(forecast_data[k].icon) \in DOMAIN fetched_icons
  /\ fetched_icons[IconCodeStr(forecast_data[k].icon)] = NoneV

\* C1: in the message handed to send_email_with_images the attached
\* content-identifiers are exactly the ones the HTML references, whatever
\* each icon GET returned (any body, or a failure); a record whose icon
\* fetch failed has neither a reference nor an attachment.
C1_AttachmentsMatchReferences ==
  sent.handed =>
    /\ AttachedCids(sent.images) = ReferencedCids(sent.html)
    /\ \A k \in 1..Len(forecast_data) :
         FetchFailed(k) =>
           LET cid == ImageCid(forecast_data[k].date_str,
                               IconCodeStr(forecast_data[k].icon))
           IN cid \notin AttachedCids(sent.images)
              /\ cid \notin ReferencedCids(sent.html)

IconCallsFor(code) ==
  {k \in 1..Len(calls) : calls[k] = Call("icon", code)}

\* C2: within one run at most one GET is issued per zero-padded icon code,
\* however many records carry the code and whether the attempt succeeded or
\* failed; every attempt, a failed one too, is recorded in fetched_icons.
C2_OneFetchPerCode ==
  \A k \in 1..Len(calls) :
    calls[k].op = "icon" =>
      /\ Cardinality(IconCallsFor(calls[k].arg)) <= 1
      /\ calls[k].arg \in DOMAIN fetched_icons

\* two records share a code whose only attempt failed, and both were handled
C2_Witness ==
  /\ pc = "summary"
  /\ Len(forecast_data) = 2
  /\ idx = 3
  /\ forecast_data[1].icon = forecast_data[2].icon
  /\ FetchFailed(1)
  /\ Cardinality(IconCallsFor(IconCodeStr(forecast_data[1].icon))) = 1

\* C3: when the icon fetch of a code failed, the summary entry and the
\* detail section of every record with that code hold no cid: reference and
\* show the record's weather description in parentheses; the run goes on
\* and, once finished, has handed the message to the mail transport.
C3_FallbackOnIconFailure ==
  \A k \in 1..Len(forecast_data) :
    FetchFailed(k) =>
      LET rec == forecast_data[k]
          n == Len(forecast_data)
      IN /\ pc \in {"summary", "send", "done"}
         /\ k \in Processed =>
              /\ html_content[k].sec = "summary"
              /\ html_content[k].cid = ""
              /\ html_content[k].text = << "(", rec.weather_desc, ")" >>
         /\ pc \in {"send", "done"} =>
              LET d == html_content[n + k]
              IN /\ d.sec = "detail"
                 /\ d.cid = ""
                 /\ Len(d.text) >= 3
                 /\ d.text[1] = "("
                 /\ d.text[2] = rec.weather_desc
                 /\ d.text[Len(d.text)] = ")"
         /\ pc = "done" => sent.handed /\ sent.html = html_content

\* a finished run in which an icon fetch failed and the message was handed over
C3_Witness ==
  /\ pc = "done"
  /\ sent.handed
  /\ \E k \in 1..Len(forecast_data) : FetchFailed(k)

LookupFailed == geo \notin {"pending", "key"}

\* C4: when the geoposition lookup yields no location key (network error,
\* non-2xx, not a JSON object, no "Key", a null or empty key) the run has
\* halted: the lookup is the only external call the run ever makes, so no
\* forecast request, no icon request and no mail send follows it.
C4_HaltOnLookupFailure ==
  LookupFailed =>
    /\ pc = "done"
    /\ calls = << Call("lookup", "") >>
    /\ ~sent.handed

\* the lookup answered with an empty key and the run is over
C4_Witness ==
  /\ geo = "empty_key"
  /\ location_key = ""
  /\ pc = "done"

\* C6: the mail transport is invoked only after the lookup returned a key and
\* the forecast fetch returned records; a run whose lookup failed, or whose
\* forecast response lacks DailyForecasts, never calls send_email_with_images.
C6_SendOnlyAfterForecast ==
  LET sends == {k \in 1..Len(calls) : calls[k].op = "send"}
  IN /\ (sent.handed \/ sends # {}) =>
          /\ geo = "key"
          /\ Truthy(location_key)
          /\ forecast_kind = "ok"
          /\ forecast_data # << >>
     /\ (LookupFailed \/ forecast_kind = "nodaily") =>
          /\ sends = {}
          /\ ~sent.handed
          /\ pc = "done"

\* a run that ended on a forecast response without DailyForecasts
C6_Witness ==
  /\ forecast_kind = "nodaily"
  /\ pc = "done"
  /\ Len(calls) = 2
  /\ ~sent.handed

RECURSIVE DistinctInOrder(_)
\* the distinct elements of s, in order of first appearance
DistinctInOrder(s) ==
  IF s = << >> THEN << >>
  ELSE LET init == DistinctInOrder(SubSeq(s, 1, Len(s) - 1))
           last == s[Len(s)]
       IN IF \E k \in 1..Len(init) : init[k] = last THEN init
          ELSE Append(init, last)

\* the zero-padded codes of the records handled so far, in record order
ProcessedCodes ==
  LET withIcon == SelectSeq(SubSeq(forecast_data, 1, Min(idx - 1, Len(forecast_data))),
                            LAMBDA r : r.icon # 0)
  IN [k \in 1..Len(withIcon) |-> IconCodeStr(withIcon[k].icon)]

\* C9: the external calls of a run are, in order, one location lookup, one
\* forecast request, one icon GET per distinct icon code in order of first
\* appearance in the record sequence, and then one mail send.
C9_CallOrder ==
  LET n == Len(calls)
      icons == SelectSeq(calls, LAMBDA c : c.op = "icon")
  IN /\ n >= 1 => calls[1].op = "lookup"
     /\ n >= 2 => calls[2].op = "forecast"
     /\ \A k \in 3..n :
          calls[k].op = "icon" \/ (k = n /\ calls[k].op = "send")
     /\ [k \in 1..Len(icons) |-> icons[k].arg] = DistinctInOrder(ProcessedCodes)
     /\ (n >= 1 /\ calls[n].op = "send") =>
          /\ idx = Len(forecast_data) + 1
          /\ pc = "done"

\* a finished run: lookup, forecast, two icon GETs for two codes, send
C9_Witness ==
  /\ pc = "done"
  /\ Len(calls) = 5
  /\ calls[3].op = "icon"
  /\ calls[4].op = "icon"
  /\ calls[3].arg # calls[4].arg
  /\ calls[5].op = "send"

----------------------------------------------------------------------------
(* Properties of get_accuweather_forecast (specification SpecForecast)     *)

\* the call has returned, and the response carried a DailyForecasts array
ForecastParsed == probe.done /\ probe.resp.kind = "ok"

IsCanon(d) == d = Canon(d.EpochDate, d.Icon)

\* every entry dated and as documented, one entry per calendar day
WellFormed(entries) ==
  /\ Len(entries) >= 1
  /\ \A k \in 1..Len(entries) : IsCanon(entries[k]) /\ entries[k].EpochDate # 0
  /\ \A j, k \in 1..Len(entries) :
       j # k => DayOf(entries[j].EpochDate) # DayOf(entries[k].EpochDate)

\* C5: with DailyForecasts present, one nested field of one entry being
\* absent, null or of the wrong type is recovered locally: the call returns
\* a record for every entry (up to the day count) and neither returns a
\* failure nor raises.
C5_FieldDegradation ==
  LET entries == probe.resp.entries
      deviant == {k \in 1..Len(entries) : ~IsCanon(entries[k])}
  IN (ForecastParsed /\ Cardinality(deviant) = 1) =>
       /\ probe.out.status = "ok"
       /\ Len(probe.out.recs) = Min(EffectiveDays(probe.days), Len(entries))

StrictlyAscendingByDate(recs) ==
  \A k \in 1..(Len(recs) - 1) :
    /\ recs[k].date_obj # 0
    /\ DayOf(recs[k].date_obj) < DayOf(recs[k + 1].date_obj)

\* C7 as stated: a well-formed payload comes back strictly ascending by
\* date with exactly min(requestedDays, providerReturnedCount) records.
C7_LengthIsMinOfRequested ==
  (ForecastParsed /\ WellFormed(probe.resp.entries)) =>
    /\ probe.out.status = "ok"
    /\ StrictlyAscendingByDate(probe.out.recs)
    /\ Len(probe.out.recs) = Min(probe.days, Len(probe.resp.entries))

\* how many of the n earliest timestamps of entries equal v
KeptOf(entries, n, v) ==
  LET below == Cardinality({k \in 1..Len(entries) : entries[k].EpochDate < v})
      at == Cardinality({k \in 1..Len(entries) : entries[k].EpochDate = v})
      room == IF n > below THEN n - below ELSE 0
  IN Min(at, room)

\* C7 as amended: a well-formed payload comes back strictly ascending by
\* date, whatever its order, with exactly min(d, providerReturnedCount)
\* records, d being requestedDays when that is 1, 5, 10 or 15 and 5
\* otherwise; undated records precede all dated ones, and the records kept
\* are the earliest ones (truncation follows the sort).
C7_SortedThenTruncated ==
  LET entries == probe.resp.entries
      recs == probe.out.recs
      d == IF probe.days \in {1, 5, 10, 15} THEN probe.days ELSE 5
  IN (ForecastParsed /\ \A k \in 1..Len(entries) : IsCanon(entries[k])) =>
       /\ probe.out.status = "ok"
       /\ WellFormed(entries) =>
            /\ StrictlyAscendingByDate(recs)
            /\ Len(recs) = Min(d, Len(entries))
       /\ \A j, k \in 1..Len(recs) :
            (j < k /\ recs[k].date_str = "N/A") => recs[j].date_str = "N/A"
       /\ \A v \in {entries[k].EpochDate : k \in 1..Len(entries)} :
            Cardinality({k \in 1..Len(recs) : recs[k].date_obj = v})
              = KeptOf(entries, Len(recs), v)

\* three dated entries in descending order, cut to the earliest one
C7_Witness ==
  /\ ForecastParsed
  /\ WellFormed(probe.resp.entries)
  /\ Len(probe.resp.entries) = 3
  /\ probe.resp.entries[1].EpochDate > probe.resp.entries[2].EpochDate
  /\ probe.resp.entries[2].EpochDate > probe.resp.entries[3].EpochDate
  /\ probe.days = 1
  /\ Len(probe.out.recs) = 1
  /\ probe.out.recs[1].date_obj = probe.resp.entries[3].EpochDate

\* C8: a day count outside {1, 5, 10, 15} (7, say) is coerced to 5 before
\* the request: the 5-day endpoint is requested, the warning is logged, the
\* value is accepted (the configuration check lets it through and a good
\* response still yields records), and at most 5 records come back.
C8_UnsupportedDaysCoerced ==
  (probe.done /\ probe.days \notin {1, 5, 10, 15}) =>
    /\ probe.out.endpoint = 5
    /\ probe.out.warned
    /\ Len(probe.out.recs) <= 5
    /\ (1 <= probe.days /\ probe.days <= 15) => ConfigValid(TRUE, probe.days)
    /\ (probe.resp.kind = "ok"
        /\ \A k \in 1..Len(probe.resp.entries) : IsCanon(probe.resp.entries[k])) =>
         /\ probe.out.status = "ok"
         /\ Len(probe.out.recs) = Min(5, Len(probe.resp.entries))

\* 7 days requested, six entries returned, five kept
C8_Witness ==
  /\ probe.done
  /\ probe.days = 7
  /\ Len(probe.resp.entries) = 6
  /\ probe.out.status = "ok"
  /\ Len(probe.out.recs) = 5
  /\ probe.out.warned

----------------------------------------------------------------------------
(* Properties of get_wind_direction (specification SpecWind)               *)

\* bearing d lies within 11.25 degrees of label k's centre 22.5 * k,
\* measured round the compass (in quarter degrees: 4d against 90k, mod 1440)
NearCentre(d, k) ==
  LET off == (4 * d - 90 * k) % 1440
  IN off < 45 \/ off > 1440 - 45

\* C10: every integer bearing in [0, 360) gets the one label whose
\* 22.5-degree bucket, centred on the label, holds it; the label of d and of
\* d + 360 agree for every integer d; None and non-numeric input give "N/A".
C10_WindDirection ==
  probe.done =>
    /\ probe.arg.tag \in {"none", "text"} => probe.out = "N/A"
    /\ (probe.arg.tag = "int" /\ 0 <= probe.arg.val /\ probe.arg.val < 360) =>
         \E k \in 0..15 :
           probe.out = directions[k + 1] /\ NearCentre(probe.arg.val, k)
    /\ probe.arg.tag = "int" =>
         probe.out = get_wind_direction(WindInt(probe.arg.val + 360))

----------------------------------------------------------------------------
(* Properties of the attachment list (specification Spec)                  *)

\* the summary loop has run over the whole record sequence
SummaryLoopDone ==
  /\ pc \in {"summary", "send", "done"}
  /\ forecast_data # << >>
  /\ idx > Len(forecast_data)

\* record k carries an icon code whose GET returned a body
FetchSucceeded(k) ==
  /\ forecast_data[k].icon # 0
  /\ IconCodeStr(forecast_data[k].icon) \in DOMAIN fetched_icons
  /\ fetched_icons[IconCodeStr(forecast_data[k].icon)] # NoneV

\* C11: once the summary loop has handled all records, email_images holds
\* each content-identifier at most once and exactly one attachment per
\* distinct (date, icon code) pair among the records whose icon was fetched
\* successfully, each carrying the bytes of that code's single fetch.
C11_OneAttachmentPerDateAndCode ==
  SummaryLoopDone =>
    /\ \A j, k \in 1..Len(email_images) :
         email_images[j][2] = email_images[k][2] => j = k
    /\ {<< email_images[k][1], email_images[k][2] >> : k \in 1..Len(email_images)}
         = {<< fetched_icons[IconCodeStr(forecast_data[k].icon)],
               ImageCid(forecast_data[k].date_str,
                        IconCodeStr(forecast_data[k].icon)) >> :
              k \in {j \in 1..Len(forecast_data) : FetchSucceeded(j)}}

====
